---- MODULE Spec2Model ----
(***************************************************************************)
(* Credential-sharing bot (discord_bot.py) and moderator console           *)
(* (approval_console.py) over one relational store.                        *)
(*                                                                         *)
(* Every bot command is a task that runs from one store call (an await)    *)
(* to the next; tasks of different commands interleave at those points.    *)
(* Each task and the console work on their own connection: statements are  *)
(* staged on the connection and reach the committed tables at commit()     *)
(* (autocommit=False), a connection released without commit() loses them.  *)
(* A SELECT reads the committed rows together with the connection's own    *)
(* staged statements.                                                      *)
(***************************************************************************)
EXTENDS Integers, FiniteSets, Sequences, TLC

VARIABLES
    db,             \* committed tables: table name -> set of rows
    seq,            \* next AUTO_INCREMENT id of each table
    sessions,       \* discord_bot.sessions: actor id -> LoginSession
    now,            \* datetime.utcnow(), in hours
    tasks,          \* the running command handlers of the bot
    con,            \* the moderator console run
    dms,            \* private messages delivered by recipient.send
    req_log,        \* history: every access_requests row ever committed
    last_confirmed, \* history: pairs whose latest committed protocol step is a confirm
    confirm_log     \* history: which actor confirmed which credential as which identity

vars == <<db, seq, sessions, now, tasks, con, dms, req_log, last_confirmed, confirm_log>>

-----------------------------------------------------------------------------
(* Bounds of the model *)

MaxRows == 2         \* ids given out by access_requests and by access_grants
MaxQueued == 3       \* ids given out by pending_users and by users
MaxUploads == 2      \* ids given out by pending_game_accounts and by game_accounts
MaxTime == 3         \* hours the clock runs
MaxGrantees == 2     \* usernames given to one grant_access
MaxDms == 1          \* private messages delivered

(* Program constants *)

SESSION_DURATION == 2    \* timedelta(hours=2)

bot_autocommit == FALSE        \* create_pool(autocommit=False) of the bot

\* a console pool created with autocommit=True
console_autocommit_on == TRUE

console_autocommit == FALSE    \* create_pool(autocommit=False) of the console

-----------------------------------------------------------------------------
(* Inputs *)

TaskIds == {1, 2}    \* the command handlers in flight at once
Actors == {1, 2}
Names == {"alice", "bob", "zed"}
Passwords == {"pa", "pb"}
Games == {"wow"}
SecretPairs == {<<"u", "p">>, <<"p", "u">>}
Grantees == {"bob", "zed"}
AccountIds == {1, 2}

\* ctx.guild.members: the chat display name of each actor
MemberName == [a \in Actors |-> IF a = 1 THEN "alice" ELSE "bob"]

Tables == {"users", "pending_users", "game_accounts", "pending_game_accounts",
           "access_requests", "access_grants"}

\* the replies of the commands (ctx.send)
PleaseLogin == "Please login first."
NoUsernames == "Provide at least one username to grant access."
NotOwned == "Account not found or not owned by you."
RequestsSent == "Access requests sent. Users must confirm with !confirm_access."
NoPendingRequest == "No pending access request found."
AccessConfirmed == "Access confirmed. Ask the uploader to share the account details."
NoConfirmedAccess == "User does not have confirmed access."
RecipientNotFound == "Recipient not found in this server."
DetailsShared == "Account details shared via DM."
NoApprovedAccount == "No approved account found."
InvalidCredentials == "Invalid credentials."
LoginSuccessful == "Login successful."
AlreadyRegistered == "Username already registered."
AlreadyPending == "Registration already pending approval."
RegistrationSubmitted == "Registration submitted for approval."
UploadSubmitted == "Game account upload submitted for approval."
InvalidMaster == "Invalid master password."
NoSharedAccounts == "No shared accounts found."
SharedAccounts == "Shared accounts:"
NoPendingAccess == "No pending access requests."
PendingAccessFor == "Pending access requests for account IDs:"
StoreError == "store error"    \* an exception of the store ends the console run

-----------------------------------------------------------------------------
(* The secret hasher: bcrypt.hashpw / bcrypt.checkpw *)

hash_secret(value) == <<"bcrypt", value>>

verify_secret(value, hashed) == hashed = hash_secret(value)

-----------------------------------------------------------------------------
(* The store connection *)

\* the last id a table gives out in the model
RowCap(t) ==
    IF t \in {"access_requests", "access_grants"} THEN MaxRows
    ELSE IF t \in {"pending_game_accounts", "game_accounts"} THEN MaxUploads
    ELSE MaxQueued

EmptyWr == [ins |-> [t \in Tables |-> {}], del |-> [t \in Tables |-> {}]]

\* the rows a statement of a connection with staged statements w reads
View(d, w) ==
    [t \in Tables |-> {r \in d[t] : r.id \notin w.del[t]} \cup w.ins[t]]

\* cur.execute("INSERT ..."): the rows are staged, or land at once under autocommit
ExecInsert(auto, d, w, t, rows) ==
    IF auto THEN [db |-> [d EXCEPT ![t] = @ \cup rows], wr |-> w]
            ELSE [db |-> d, wr |-> [w EXCEPT !.ins[t] = @ \cup rows]]

\* cur.execute("DELETE ... WHERE id ..."): staged, or at once under autocommit
ExecDelete(auto, d, w, t, ids) ==
    IF auto THEN [db |-> [d EXCEPT ![t] = {r \in @ : r.id \notin ids}], wr |-> w]
            ELSE [db |-> d, wr |-> [w EXCEPT !.del[t] = @ \cup ids]]

\* conn.commit()
Commit(d, w) == View(d, w)

users == db["users"]
pending_users == db["pending_users"]
game_accounts == db["game_accounts"]
pending_game_accounts == db["pending_game_accounts"]
access_requests == db["access_requests"]
access_grants == db["access_grants"]

-----------------------------------------------------------------------------
(* The session registry *)

\* is_logged_in: <<>> or <<session>>
is_logged_in(user_id) ==
    IF user_id \notin DOMAIN sessions THEN <<>>
    ELSE IF sessions[user_id].expires_at < now THEN <<>>
    ELSE <<sessions[user_id]>>

\* a session check that renews the entry it finds alive
sessions_after_check_sliding(user_id) ==
    IF user_id \notin DOMAIN sessions THEN sessions
    ELSE IF sessions[user_id].expires_at < now
    THEN [a \in DOMAIN sessions \ {user_id} |-> sessions[a]]
    ELSE [sessions EXCEPT ![user_id].expires_at = now + SESSION_DURATION]

\* the registry after is_logged_in: an expired entry is popped
sessions_after_check(user_id) ==
    IF user_id \in DOMAIN sessions /\ sessions[user_id].expires_at < now
    THEN [a \in DOMAIN sessions \ {user_id} |-> sessions[a]]
    ELSE sessions

-----------------------------------------------------------------------------
(* Command handlers *)

IdleTask ==
    [cmd |-> "", pc |-> "idle", actor |-> 0, username |-> "", password |-> "",
     account_id |-> 0, usernames |-> <<>>, i |-> 0, target |-> "",
     game |-> "", secret |-> <<>>, row |-> <<>>, wr |-> EmptyWr,
     resp |-> "", unreg |-> {}]

\* a new command is dispatched to the first handler that is not running
Free(t) ==
    /\ tasks[t].pc \in {"idle", "done"}
    /\ \A u \in TaskIds : u < t => tasks[u].pc \notin {"idle", "done"}

\* the handler returns: its connection is released, its reply is sent
Finish(task, reply) ==
    [IdleTask EXCEPT !.cmd = task.cmd, !.pc = "done",
                     !.username = task.username, !.account_id = task.account_id,
                     !.usernames = task.usernames, !.resp = reply]

\* a protected command starts: the session check, then the first store call
Begin(t, ctx_author, new, first_pc) ==
    LET session == is_logged_in(ctx_author)
        call == [new EXCEPT !.actor = ctx_author]
    IN  /\ Free(t)
        /\ sessions' = sessions_after_check(ctx_author)
        /\ tasks' = [tasks EXCEPT ![t] =
                       IF session = <<>> THEN Finish(call, PleaseLogin)
                       ELSE [call EXCEPT !.pc = first_pc,
                                         !.username = session[1].username]]

\* what a step that writes the committed tables adds to the history
History ==
    LET new_requests == db'["access_requests"] \ db["access_requests"]
        new_grants == db'["access_grants"] \ db["access_grants"]
    IN  /\ req_log' = req_log \cup new_requests
        /\ last_confirmed' =
              (last_confirmed \ {<<r.account_id, r.username>> : r \in new_requests})
                 \cup {<<g.account_id, g.username>> : g \in new_grants}

-----------------------------------------------------------------------------
(* login, logout *)

LoginBegin(t, ctx_author, username, password) ==
    /\ Free(t)
    /\ tasks' = [tasks EXCEPT ![t] =
                   [IdleTask EXCEPT !.cmd = "login", !.pc = "fetch", !.actor = ctx_author,
                                    !.username = username, !.password = password]]
    /\ UNCHANGED <<db, seq, sessions, now, con, dms, req_log, last_confirmed, confirm_log>>

\* a fetch_user that also finds the registrations still in the queue
LoginFetch_pending(t) ==
    LET me == tasks[t]
        found == {r \in users \cup pending_users : r.username = me.username}
    IN  /\ me.cmd = "login" /\ me.pc = "fetch"
        /\ \/ /\ found = {}
              /\ tasks' = [tasks EXCEPT ![t] = Finish(me, NoApprovedAccount)]
           \/ \E user \in found :
                 tasks' = [tasks EXCEPT ![t] = [me EXCEPT !.pc = "verify", !.row = <<user>>]]
        /\ UNCHANGED <<db, seq, sessions, now, con, dms, req_log, last_confirmed, confirm_log>>

\* user = await fetch_user(username)
LoginFetch(t) ==
    LET me == tasks[t]
        found == {r \in users : r.username = me.username}
    IN  /\ me.cmd = "login" /\ me.pc = "fetch"
        /\ \/ /\ found = {}
              /\ tasks' = [tasks EXCEPT ![t] = Finish(me, NoApprovedAccount)]
           \/ \E user \in found :
                 tasks' = [tasks EXCEPT ![t] = [me EXCEPT !.pc = "verify", !.row = <<user>>]]
        /\ UNCHANGED <<db, seq, sessions, now, con, dms, req_log, last_confirmed, confirm_log>>

\* ok = await verify_secret(...); sessions[ctx.author.id] = LoginSession(...)
LoginVerify(t) ==
    LET me == tasks[t]
        ok == verify_secret(me.password, me.row[1].passhash)
    IN  /\ me.cmd = "login" /\ me.pc = "verify"
        /\ IF ok
           THEN /\ sessions' =
                      [a \in DOMAIN sessions \cup {me.actor} |->
                          IF a = me.actor
                          THEN [username |-> me.username,
                                expires_at |-> now + SESSION_DURATION]
                          ELSE sessions[a]]
                /\ tasks' = [tasks EXCEPT ![t] = Finish(me, LoginSuccessful)]
           ELSE /\ sessions' = sessions
                /\ tasks' = [tasks EXCEPT ![t] = Finish(me, InvalidCredentials)]
        /\ UNCHANGED <<db, seq, now, con, dms, req_log, last_confirmed, confirm_log>>

\* sessions.pop(ctx.author.id, None)
logout(ctx_author) ==
    /\ sessions' = [a \in DOMAIN sessions \ {ctx_author} |-> sessions[a]]
    /\ UNCHANGED <<db, seq, now, tasks, con, dms, req_log, last_confirmed, confirm_log>>

\* an hour passes
Tick ==
    /\ now < MaxTime
    /\ now' = now + 1
    /\ UNCHANGED <<db, seq, sessions, tasks, con, dms, req_log, last_confirmed, confirm_log>>

-----------------------------------------------------------------------------
(* register *)

RegisterBegin(t, ctx_author, username, password) ==
    /\ Free(t)
    /\ tasks' = [tasks EXCEPT ![t] =
                   [IdleTask EXCEPT !.cmd = "register", !.pc = "users", !.actor = ctx_author,
                                    !.username = username, !.password = password]]
    /\ UNCHANGED <<db, seq, sessions, now, con, dms, req_log, last_confirmed, confirm_log>>

\* SELECT 1 FROM users WHERE username = %s
RegisterUsers(t) ==
    LET me == tasks[t]
        found == {r \in View(db, me.wr)["users"] : r.username = me.username}
    IN  /\ me.cmd = "register" /\ me.pc = "users"
        /\ tasks' = [tasks EXCEPT ![t] =
                       IF found # {} THEN Finish(me, AlreadyRegistered)
                       ELSE [me EXCEPT !.pc = "pending"]]
        /\ UNCHANGED <<db, seq, sessions, now, con, dms, req_log, last_confirmed, confirm_log>>

\* SELECT 1 FROM pending_users WHERE username = %s
RegisterPending(t) ==
    LET me == tasks[t]
        found == {r \in View(db, me.wr)["pending_users"] : r.username = me.username}
    IN  /\ me.cmd = "register" /\ me.pc = "pending"
        /\ tasks' = [tasks EXCEPT ![t] =
                       IF found # {} THEN Finish(me, AlreadyPending)
                       ELSE [me EXCEPT !.pc = "insert"]]
        /\ UNCHANGED <<db, seq, sessions, now, con, dms, req_log, last_confirmed, confirm_log>>

\* INSERT INTO pending_users (username, passhash, requested_by)
RegisterInsert(t) ==
    LET me == tasks[t]
        row == [id |-> seq["pending_users"], username |-> me.username,
                passhash |-> hash_secret(me.password), requested_by |-> me.actor]
        done == ExecInsert(bot_autocommit, db, me.wr, "pending_users", {row})
    IN  /\ me.cmd = "register" /\ me.pc = "insert"
        /\ seq["pending_users"] <= RowCap("pending_users")
        /\ seq' = [seq EXCEPT !["pending_users"] = @ + 1]
        /\ db' = done.db
        /\ tasks' = [tasks EXCEPT ![t] = [me EXCEPT !.wr = done.wr, !.pc = "commit"]]
        /\ UNCHANGED <<sessions, now, con, dms, req_log, last_confirmed, confirm_log>>

\* await conn.commit()
RegisterCommit(t) ==
    LET me == tasks[t]
    IN  /\ me.cmd = "register" /\ me.pc = "commit"
        /\ db' = Commit(db, me.wr)
        /\ tasks' = [tasks EXCEPT ![t] = Finish(me, RegistrationSubmitted)]
        /\ UNCHANGED <<seq, sessions, now, con, dms, req_log, last_confirmed, confirm_log>>

-----------------------------------------------------------------------------
(* upload_account *)

UploadBegin(t, ctx_author, game, game_username, game_password) ==
    /\ Begin(t, ctx_author,
             [IdleTask EXCEPT !.cmd = "upload_account", !.game = game,
                              !.secret = <<game_username, game_password>>],
             "insert")
    /\ UNCHANGED <<db, seq, now, con, dms, req_log, last_confirmed, confirm_log>>

\* INSERT INTO pending_game_accounts (uploader_username, game, ..._hash, ..._hash)
UploadInsert(t) ==
    LET me == tasks[t]
        row == [id |-> seq["pending_game_accounts"], uploader_username |-> me.username,
                game |-> me.game,
                game_username_hash |-> hash_secret(me.secret[1]),
                game_password_hash |-> hash_secret(me.secret[2])]
        done == ExecInsert(bot_autocommit, db, me.wr, "pending_game_accounts", {row})
    IN  /\ me.cmd = "upload_account" /\ me.pc = "insert"
        /\ seq["pending_game_accounts"] <= RowCap("pending_game_accounts")
        /\ seq' = [seq EXCEPT !["pending_game_accounts"] = @ + 1]
        /\ db' = done.db
        /\ tasks' = [tasks EXCEPT ![t] = [me EXCEPT !.wr = done.wr, !.pc = "commit"]]
        /\ UNCHANGED <<sessions, now, con, dms, req_log, last_confirmed, confirm_log>>

\* await conn.commit()
UploadCommit(t) ==
    LET me == tasks[t]
    IN  /\ me.cmd = "upload_account" /\ me.pc = "commit"
        /\ db' = Commit(db, me.wr)
        /\ tasks' = [tasks EXCEPT ![t] = Finish(me, UploadSubmitted)]
        /\ UNCHANGED <<seq, sessions, now, con, dms, req_log, last_confirmed, confirm_log>>

-----------------------------------------------------------------------------
(* grant_access *)

GrantBegin(t, ctx_author, account_id, usernames) ==
    /\ Begin(t, ctx_author,
             [IdleTask EXCEPT !.cmd = "grant_access", !.account_id = account_id,
                              !.usernames = usernames, !.i = 1,
                              !.resp = IF usernames = <<>> THEN NoUsernames ELSE ""],
             IF usernames = <<>> THEN "done" ELSE "owner")
    /\ UNCHANGED <<db, seq, now, con, dms, req_log, last_confirmed, confirm_log>>

\* grant_access looking the account up by id alone
GrantOwner_any_uploader(t) ==
    LET me == tasks[t]
        found == {r \in View(db, me.wr)["game_accounts"] : r.id = me.account_id}
    IN  /\ me.cmd = "grant_access" /\ me.pc = "owner"
        /\ tasks' = [tasks EXCEPT ![t] =
                       IF found = {} THEN Finish(me, NotOwned)
                       ELSE [me EXCEPT !.pc = "user"]]
        /\ UNCHANGED <<db, seq, sessions, now, con, dms, req_log, last_confirmed, confirm_log>>

\* SELECT id FROM game_accounts WHERE id = %s AND uploader_username = %s
GrantOwner(t) ==
    LET me == tasks[t]
        found == {r \in View(db, me.wr)["game_accounts"] :
                     r.id = me.account_id /\ r.uploader_username = me.username}
    IN  /\ me.cmd = "grant_access" /\ me.pc = "owner"
        /\ tasks' = [tasks EXCEPT ![t] =
                       IF found = {} THEN Finish(me, NotOwned)
                       ELSE [me EXCEPT !.pc = "user"]]
        /\ UNCHANGED <<db, seq, sessions, now, con, dms, req_log, last_confirmed, confirm_log>>

\* where the loop over usernames goes after the i-th one
GrantNext(me) == IF me.i < Len(me.usernames) THEN "user" ELSE "commit"

\* SELECT 1 FROM users WHERE username = %s
GrantUser(t) ==
    LET me == tasks[t]
        username == me.usernames[me.i]
        found == {r \in View(db, me.wr)["users"] : r.username = username}
    IN  /\ me.cmd = "grant_access" /\ me.pc = "user"
        /\ tasks' = [tasks EXCEPT ![t] =
                       IF found = {}
                       THEN [me EXCEPT !.unreg = @ \cup {username}, !.i = @ + 1,
                                       !.pc = GrantNext(me)]
                       ELSE [me EXCEPT !.pc = "insert"]]
        /\ UNCHANGED <<db, seq, sessions, now, con, dms, req_log, last_confirmed, confirm_log>>

\* INSERT INTO access_requests (account_id, username, requested_by)
GrantInsert(t) ==
    LET me == tasks[t]
        row == [id |-> seq["access_requests"], account_id |-> me.account_id,
                username |-> me.usernames[me.i], requested_by |-> me.username]
        done == ExecInsert(bot_autocommit, db, me.wr, "access_requests", {row})
    IN  /\ me.cmd = "grant_access" /\ me.pc = "insert"
        /\ seq["access_requests"] <= RowCap("access_requests")
        /\ seq' = [seq EXCEPT !["access_requests"] = @ + 1]
        /\ db' = done.db
        /\ tasks' = [tasks EXCEPT ![t] =
                       [me EXCEPT !.wr = done.wr, !.i = @ + 1, !.pc = GrantNext(me)]]
        /\ History
        /\ UNCHANGED <<confirm_log, sessions, now, con, dms>>

\* await conn.commit()
GrantCommit(t) ==
    LET me == tasks[t]
    IN  /\ me.cmd = "grant_access" /\ me.pc = "commit"
        /\ db' = Commit(db, me.wr)
        /\ tasks' = [tasks EXCEPT ![t] = Finish(me, RequestsSent)]
        /\ History
        /\ UNCHANGED <<confirm_log, seq, sessions, now, con, dms>>

-----------------------------------------------------------------------------
(* confirm_access *)

ConfirmBegin(t, ctx_author, account_id) ==
    /\ Begin(t, ctx_author,
             [IdleTask EXCEPT !.cmd = "confirm_access", !.account_id = account_id],
             "select")
    /\ UNCHANGED <<db, seq, now, con, dms, req_log, last_confirmed, confirm_log>>

\* SELECT id, requested_by FROM access_requests WHERE account_id = %s AND username = %s
ConfirmSelect(t) ==
    LET me == tasks[t]
        found == {r \in View(db, me.wr)["access_requests"] :
                     r.account_id = me.account_id /\ r.username = me.username}
    IN  /\ me.cmd = "confirm_access" /\ me.pc = "select"
        /\ \/ /\ found = {}
              /\ tasks' = [tasks EXCEPT ![t] = Finish(me, NoPendingRequest)]
           \/ \E row \in found :
                 tasks' = [tasks EXCEPT ![t] = [me EXCEPT !.pc = "insert", !.row = <<row>>]]
        /\ UNCHANGED <<db, seq, sessions, now, con, dms, req_log, last_confirmed, confirm_log>>

\* a confirm_access that records the confirming identity as granted_by
ConfirmInsert_granted_by_self(t) ==
    LET me == tasks[t]
        grant == [id |-> seq["access_grants"], account_id |-> me.account_id,
                  username |-> me.username, granted_by |-> me.username]
        done == ExecInsert(bot_autocommit, db, me.wr, "access_grants", {grant})
    IN  /\ me.cmd = "confirm_access" /\ me.pc = "insert"
        /\ seq["access_grants"] <= RowCap("access_grants")
        /\ seq' = [seq EXCEPT !["access_grants"] = @ + 1]
        /\ db' = done.db
        /\ tasks' = [tasks EXCEPT ![t] = [me EXCEPT !.wr = done.wr, !.pc = "delete"]]
        /\ History
        /\ UNCHANGED <<confirm_log, sessions, now, con, dms>>

\* INSERT INTO access_grants (account_id, username, granted_by)
ConfirmInsert(t) ==
    LET me == tasks[t]
        grant == [id |-> seq["access_grants"], account_id |-> me.account_id,
                  username |-> me.username, granted_by |-> me.row[1].requested_by]
        done == ExecInsert(bot_autocommit, db, me.wr, "access_grants", {grant})
    IN  /\ me.cmd = "confirm_access" /\ me.pc = "insert"
        /\ seq["access_grants"] <= RowCap("access_grants")
        /\ seq' = [seq EXCEPT !["access_grants"] = @ + 1]
        /\ db' = done.db
        /\ tasks' = [tasks EXCEPT ![t] = [me EXCEPT !.wr = done.wr, !.pc = "delete"]]
        /\ History
        /\ UNCHANGED <<confirm_log, sessions, now, con, dms>>

\* DELETE FROM access_requests WHERE id = %s
ConfirmDelete(t) ==
    LET me == tasks[t]
        done == ExecDelete(bot_autocommit, db, me.wr, "access_requests", {me.row[1].id})
    IN  /\ me.cmd = "confirm_access" /\ me.pc = "delete"
        /\ db' = done.db
        /\ tasks' = [tasks EXCEPT ![t] = [me EXCEPT !.wr = done.wr, !.pc = "commit"]]
        /\ History
        /\ UNCHANGED <<confirm_log, seq, sessions, now, con, dms>>

\* await conn.commit()
ConfirmCommit(t) ==
    LET me == tasks[t]
    IN  /\ me.cmd = "confirm_access" /\ me.pc = "commit"
        /\ db' = Commit(db, me.wr)
        /\ tasks' = [tasks EXCEPT ![t] = Finish(me, AccessConfirmed)]
        /\ History
        /\ confirm_log' = confirm_log \cup {[actor |-> me.actor, username |-> me.username,
                                        account_id |-> me.account_id]}
        /\ UNCHANGED <<seq, sessions, now, con, dms>>

-----------------------------------------------------------------------------
(* share_account *)

ShareBegin(t, ctx_author, account_id, target_username, game_username, game_password) ==
    /\ Begin(t, ctx_author,
             [IdleTask EXCEPT !.cmd = "share_account", !.account_id = account_id,
                              !.target = target_username,
                              !.secret = <<game_username, game_password>>],
             "owner")
    /\ UNCHANGED <<db, seq, now, con, dms, req_log, last_confirmed, confirm_log>>

\* SELECT id, game FROM game_accounts WHERE id = %s AND uploader_username = %s
ShareOwner(t) ==
    LET me == tasks[t]
        found == {r \in View(db, me.wr)["game_accounts"] :
                     r.id = me.account_id /\ r.uploader_username = me.username}
    IN  /\ me.cmd = "share_account" /\ me.pc = "owner"
        /\ \/ /\ found = {}
              /\ tasks' = [tasks EXCEPT ![t] = Finish(me, NotOwned)]
           \/ \E account \in found :
                 tasks' = [tasks EXCEPT ![t] =
                             [me EXCEPT !.pc = "grant", !.game = account.game]]
        /\ UNCHANGED <<db, seq, sessions, now, con, dms, req_log, last_confirmed, confirm_log>>

\* share_account reading access_requests where the code reads access_grants
ShareGrant_requests(t) ==
    LET me == tasks[t]
        found == {g \in View(db, me.wr)["access_requests"] :
                     g.account_id = me.account_id /\ g.username = me.target}
    IN  /\ me.cmd = "share_account" /\ me.pc = "grant"
        /\ tasks' = [tasks EXCEPT ![t] =
                       IF found = {} THEN Finish(me, NoConfirmedAccess)
                       ELSE [me EXCEPT !.pc = "send"]]
        /\ UNCHANGED <<db, seq, sessions, now, con, dms, req_log, last_confirmed, confirm_log>>

\* SELECT 1 FROM access_grants WHERE account_id = %s AND username = %s
ShareGrant(t) ==
    LET me == tasks[t]
        found == {g \in View(db, me.wr)["access_grants"] :
                     g.account_id = me.account_id /\ g.username = me.target}
    IN  /\ me.cmd = "share_account" /\ me.pc = "grant"
        /\ tasks' = [tasks EXCEPT ![t] =
                       IF found = {} THEN Finish(me, NoConfirmedAccess)
                       ELSE [me EXCEPT !.pc = "send"]]
        /\ UNCHANGED <<db, seq, sessions, now, con, dms, req_log, last_confirmed, confirm_log>>

\* discord.utils.get(ctx.guild.members, name=target_username): the first match
Recipient(target_username) ==
    LET named == {a \in Actors : MemberName[a] = target_username}
    IN  IF named = {} THEN <<>>
        ELSE <<CHOOSE a \in named : \A b \in named : a <= b>>

\* recipient = discord.utils.get(...); await recipient.send(...)
ShareSend(t) ==
    LET me == tasks[t]
        recipient == Recipient(me.target)
    IN  /\ me.cmd = "share_account" /\ me.pc = "send"
        /\ IF recipient = <<>>
           THEN /\ dms' = dms
                /\ tasks' = [tasks EXCEPT ![t] = Finish(me, RecipientNotFound)]
           ELSE /\ Len(dms) < MaxDms
                \* the message, and the command it came from (account_id, target)
                /\ dms' = Append(dms, [to |-> recipient[1], game |-> me.game,
                                       sender |-> me.username,
                                       account_id |-> me.account_id,
                                       target |-> me.target,
                                       game_username |-> me.secret[1],
                                       game_password |-> me.secret[2]])
                /\ tasks' = [tasks EXCEPT ![t] = Finish(me, DetailsShared)]
        /\ UNCHANGED <<db, seq, sessions, now, con, req_log, last_confirmed, confirm_log>>

-----------------------------------------------------------------------------
(* list_accounts, pending_access: the replies are modelled by their first line *)

ListBegin(t, ctx_author) ==
    /\ Begin(t, ctx_author, [IdleTask EXCEPT !.cmd = "list_accounts"], "select")
    /\ UNCHANGED <<db, seq, now, con, dms, req_log, last_confirmed, confirm_log>>

\* SELECT ga.id, ga.game FROM access_grants ag JOIN game_accounts ga ... WHERE ag.username = %s
ListSelect(t) ==
    LET me == tasks[t]
        v == View(db, me.wr)
        rows == {<<ag, ga>> \in v["access_grants"] \X v["game_accounts"] :
                    ga.id = ag.account_id /\ ag.username = me.username}
    IN  /\ me.cmd = "list_accounts" /\ me.pc = "select"
        /\ tasks' = [tasks EXCEPT ![t] =
                       Finish(me, IF rows = {} THEN NoSharedAccounts ELSE SharedAccounts)]
        /\ UNCHANGED <<db, seq, sessions, now, con, dms, req_log, last_confirmed, confirm_log>>

PendingBegin(t, ctx_author) ==
    /\ Begin(t, ctx_author, [IdleTask EXCEPT !.cmd = "pending_access"], "select")
    /\ UNCHANGED <<db, seq, now, con, dms, req_log, last_confirmed, confirm_log>>

\* SELECT account_id FROM access_requests WHERE username = %s
PendingSelect(t) ==
    LET me == tasks[t]
        rows == {r \in View(db, me.wr)["access_requests"] : r.username = me.username}
    IN  /\ me.cmd = "pending_access" /\ me.pc = "select"
        /\ tasks' = [tasks EXCEPT ![t] =
                       Finish(me, IF rows = {} THEN NoPendingAccess ELSE PendingAccessFor)]
        /\ UNCHANGED <<db, seq, sessions, now, con, dms, req_log, last_confirmed, confirm_log>>

-----------------------------------------------------------------------------
(* The moderator console: main, approve_pending_users, approve_pending_accounts *)

Queues == {"users", "accounts"}

\* the table a queue is read from
Pending(q) == IF q = "users" THEN "pending_users" ELSE "pending_game_accounts"

\* the table an approved row of a queue is inserted into
Target(q) == IF q = "users" THEN "users" ELSE "game_accounts"

ConOff ==
    [pc |-> "off", q |-> "users", listed |-> {}, approve_ids |-> {}, reject_ids |-> {},
     wr |-> EmptyWr, exit |-> ""]

\* the console at the first statement of a queue, on a fresh connection
ConAt(q) == [ConOff EXCEPT !.pc = "select", !.q = q]

\* after approve_pending_users comes approve_pending_accounts, then the pool closes
ConAfter(q) == IF q = "users" THEN ConAt("accounts") ELSE ConOff

MASTER_PASSWORD_HASH == hash_secret("master")

MasterGuesses == {"master", "guess"}

\* a main that opens the pool whatever verify_master_password finds
ConStart_unchecked(password) ==
    /\ con.pc = "off"
    /\ con' = ConAt("users")
    /\ UNCHANGED <<db, seq, sessions, now, tasks, dms, req_log, last_confirmed, confirm_log>>

\* await verify_master_password(); pool = await aiomysql.create_pool(...)
ConStart(password) ==
    /\ con.pc = "off"
    /\ con' = IF verify_secret(password, MASTER_PASSWORD_HASH)
              THEN ConAt("users")
              ELSE [ConOff EXCEPT !.exit = InvalidMaster]
    /\ UNCHANGED <<db, seq, sessions, now, tasks, dms, req_log, last_confirmed, confirm_log>>

\* SELECT ... FROM pending_users / pending_game_accounts ORDER BY created_at
ConSelect ==
    LET rows == View(db, con.wr)[Pending(con.q)]
    IN  /\ con.pc = "select"
        /\ con' = IF rows = {} THEN ConAfter(con.q)
                  ELSE [con EXCEPT !.pc = "prompt", !.listed = {r.id : r \in rows}]
        /\ UNCHANGED <<db, seq, sessions, now, tasks, dms, req_log, last_confirmed, confirm_log>>

\* where approve_pending_* goes after the statement at pc
ConNext(pc, approve_ids, reject_ids) ==
    IF pc = "prompt" /\ approve_ids # {} THEN "insert"
    ELSE IF pc = "insert" THEN "delete"
    ELSE IF pc \in {"prompt", "delete"} /\ reject_ids # {} THEN "reject"
    ELSE "commit"

\* approve_ids = prompt_ids(...); reject_ids = prompt_ids(...): the moderator types
\* ids of the rows printed
ConPrompt(approve_ids, reject_ids) ==
    /\ con.pc = "prompt"
    /\ approve_ids \subseteq con.listed
    /\ reject_ids \subseteq con.listed
    /\ con' = [con EXCEPT !.approve_ids = approve_ids, !.reject_ids = reject_ids,
                          !.pc = ConNext("prompt", approve_ids, reject_ids)]
    /\ UNCHANGED <<db, seq, sessions, now, tasks, dms, req_log, last_confirmed, confirm_log>>

\* the row INSERT ... SELECT makes of a pending row
Promoted(q, r, id) ==
    IF q = "users"
    THEN [id |-> id, username |-> r.username, passhash |-> r.passhash]
    ELSE [id |-> id, uploader_username |-> r.uploader_username, game |-> r.game,
          game_username_hash |-> r.game_username_hash,
          game_password_hash |-> r.game_password_hash]

\* INSERT INTO users/game_accounts (...) SELECT ... FROM pending WHERE id IN approve
ConInsert ==
    LET src == {r \in View(db, con.wr)[Pending(con.q)] : r.id \in con.approve_ids}
        rows == {Promoted(con.q, r,
                          seq[Target(con.q)] + Cardinality({x \in src : x.id < r.id})) :
                    r \in src}
        done == ExecInsert(console_autocommit, db, con.wr, Target(con.q), rows)
    IN  /\ con.pc = "insert"
        /\ seq[Target(con.q)] + Cardinality(src) <= RowCap(Target(con.q)) + 1
        /\ seq' = [seq EXCEPT ![Target(con.q)] = @ + Cardinality(src)]
        /\ db' = done.db
        /\ con' = [con EXCEPT !.wr = done.wr,
                              !.pc = ConNext("insert", con.approve_ids, con.reject_ids)]
        /\ UNCHANGED <<sessions, now, tasks, dms, req_log, last_confirmed, confirm_log>>

\* the first DELETE given the reject ids where the code gives the approve ids
ConDelete_reject_ids ==
    LET done == ExecDelete(console_autocommit, db, con.wr, Pending(con.q), con.reject_ids)
    IN  /\ con.pc = "delete"
        /\ db' = done.db
        /\ con' = [con EXCEPT !.wr = done.wr,
                              !.pc = ConNext("delete", con.approve_ids, con.reject_ids)]
        /\ UNCHANGED <<seq, sessions, now, tasks, dms, req_log, last_confirmed, confirm_log>>

\* DELETE FROM pending WHERE id IN approve
ConDelete ==
    LET done == ExecDelete(console_autocommit, db, con.wr, Pending(con.q), con.approve_ids)
    IN  /\ con.pc = "delete"
        /\ db' = done.db
        /\ con' = [con EXCEPT !.wr = done.wr,
                              !.pc = ConNext("delete", con.approve_ids, con.reject_ids)]
        /\ UNCHANGED <<seq, sessions, now, tasks, dms, req_log, last_confirmed, confirm_log>>

\* DELETE FROM pending WHERE id IN reject
ConReject ==
    LET done == ExecDelete(console_autocommit, db, con.wr, Pending(con.q), con.reject_ids)
    IN  /\ con.pc = "reject"
        /\ db' = done.db
        /\ con' = [con EXCEPT !.wr = done.wr, !.pc = "commit"]
        /\ UNCHANGED <<seq, sessions, now, tasks, dms, req_log, last_confirmed, confirm_log>>

\* await conn.commit()
ConCommit ==
    /\ con.pc = "commit"
    /\ db' = Commit(db, con.wr)
    /\ con' = ConAfter(con.q)
    /\ UNCHANGED <<seq, sessions, now, tasks, dms, req_log, last_confirmed, confirm_log>>

\* the store fails at the next call: the exception leaves both async with blocks
\* without commit() and main closes the pool
ConFail ==
    /\ con.pc \in {"insert", "delete", "reject", "commit"}
    /\ con' = [ConOff EXCEPT !.exit = StoreError]
    /\ UNCHANGED <<db, seq, sessions, now, tasks, dms, req_log, last_confirmed, confirm_log>>

-----------------------------------------------------------------------------
(* Specifications *)

\* the bot and the store at first start: empty tables, no session
Init ==
    /\ db = [t \in Tables |-> {}]
    /\ seq = [t \in Tables |-> 1]
    /\ sessions = << >>
    /\ now = 0
    /\ tasks = [t \in TaskIds |-> IdleTask]
    /\ con = ConOff
    /\ dms = << >>
    /\ req_log = {}
    /\ last_confirmed = {}
    /\ confirm_log = {}

\* a store the moderator has approved two registrations and one upload into
InitAccess ==
    /\ db = [t \in Tables |->
               IF t = "users"
               THEN {[id |-> 1, username |-> "alice", passhash |-> hash_secret("pa")],
                     [id |-> 2, username |-> "bob", passhash |-> hash_secret("pb")]}
               ELSE IF t = "game_accounts"
               THEN {[id |-> 1, uploader_username |-> "alice", game |-> "wow",
                      game_username_hash |-> hash_secret("u"),
                      game_password_hash |-> hash_secret("p")]}
               ELSE {}]
    /\ seq = [t \in Tables |->
                IF t \in {"users", "pending_users"} THEN 3
                ELSE IF t \in {"game_accounts", "pending_game_accounts"} THEN 2
                ELSE 1]
    /\ sessions = [a \in Actors |->
                     [username |-> MemberName[a], expires_at |-> SESSION_DURATION]]
    /\ now = 0
    /\ tasks = [t \in TaskIds |-> IdleTask]
    /\ con = ConOff
    /\ dms = << >>
    /\ req_log = {}
    /\ last_confirmed = {}
    /\ confirm_log = {}

GranteeLists == UNION {[1..n -> Grantees] : n \in 0..MaxGrantees}

NextAccess ==
    \/ \E t \in TaskIds, a \in Actors, c \in AccountIds, us \in GranteeLists :
          GrantBegin(t, a, c, us)
    \/ \E t \in TaskIds : GrantOwner(t)
    \/ \E t \in TaskIds : GrantUser(t)
    \/ \E t \in TaskIds : GrantInsert(t)
    \/ \E t \in TaskIds : GrantCommit(t)
    \/ \E t \in TaskIds, a \in Actors, c \in AccountIds : ConfirmBegin(t, a, c)
    \/ \E t \in TaskIds : ConfirmSelect(t)
    \/ \E t \in TaskIds : ConfirmInsert(t)
    \/ \E t \in TaskIds : ConfirmDelete(t)
    \/ \E t \in TaskIds : ConfirmCommit(t)
    \/ \E t \in TaskIds, a \in Actors, c \in AccountIds, g \in Grantees, s \in SecretPairs :
          ShareBegin(t, a, c, g, s[1], s[2])
    \/ \E t \in TaskIds : ShareOwner(t)
    \/ \E t \in TaskIds : ShareGrant(t)
    \/ \E t \in TaskIds : ShareSend(t)

SpecAccess == InitAccess /\ [][NextAccess]_vars

\* a store with one approved identity, logged in, her approved upload, and nothing
\* queued
InitQueue ==
    /\ db = [t \in Tables |->
               IF t = "users"
               THEN {[id |-> 1, username |-> "alice", passhash |-> hash_secret("pa")]}
               ELSE IF t = "game_accounts"
               THEN {[id |-> 1, uploader_username |-> "alice", game |-> "wow",
                      game_username_hash |-> hash_secret("u"),
                      game_password_hash |-> hash_secret("p")]}
               ELSE {}]
    /\ seq = [t \in Tables |->
                IF t \in {"users", "pending_users", "game_accounts", "pending_game_accounts"}
                THEN 2 ELSE 1]
    /\ sessions = [a \in {1} |-> [username |-> "alice", expires_at |-> SESSION_DURATION]]
    /\ now = 0
    /\ tasks = [t \in TaskIds |-> IdleTask]
    /\ con = ConOff
    /\ dms = << >>
    /\ req_log = {}
    /\ last_confirmed = {}
    /\ confirm_log = {}

\* the registrations tried: a username and the password registered with it
Registrations == {<<"alice", "pa">>, <<"bob", "pb">>}

IdSets == SUBSET (1..MaxQueued)

NextQueue ==
    \/ \E t \in TaskIds, a \in Actors, r \in Registrations :
          RegisterBegin(t, a, r[1], r[2])
    \/ \E t \in TaskIds : RegisterUsers(t)
    \/ \E t \in TaskIds : RegisterPending(t)
    \/ \E t \in TaskIds : RegisterInsert(t)
    \/ \E t \in TaskIds : RegisterCommit(t)
    \/ \E t \in TaskIds, a \in Actors, g \in Games : UploadBegin(t, a, g, "u", "p")
    \/ \E t \in TaskIds : UploadInsert(t)
    \/ \E t \in TaskIds : UploadCommit(t)
    \/ \E p \in MasterGuesses : ConStart(p)
    \/ ConSelect
    \/ \E approve_ids \in IdSets, reject_ids \in IdSets : ConPrompt(approve_ids, reject_ids)
    \/ ConInsert
    \/ ConDelete
    \/ ConReject
    \/ ConCommit
    \/ ConFail

SpecQueue == InitQueue /\ [][NextQueue]_vars

\* a store with two approved identities, one registration still pending and one
\* approved upload; nobody is logged in
InitSession ==
    /\ db = [t \in Tables |->
               IF t = "users"
               THEN {[id |-> 1, username |-> "alice", passhash |-> hash_secret("pa")],
                     [id |-> 2, username |-> "zed", passhash |-> hash_secret("pb")]}
               ELSE IF t = "pending_users"
               THEN {[id |-> 3, username |-> "bob", passhash |-> hash_secret("pb"),
                      requested_by |-> 2]}
               ELSE IF t = "game_accounts"
               THEN {[id |-> 1, uploader_username |-> "alice", game |-> "wow",
                      game_username_hash |-> hash_secret("u"),
                      game_password_hash |-> hash_secret("p")]}
               ELSE {}]
    /\ seq = [t \in Tables |->
                IF t = "users" THEN 3
                ELSE IF t = "pending_users" THEN 4
                ELSE IF t \in {"game_accounts", "pending_game_accounts"} THEN 2
                ELSE 1]
    /\ sessions = << >>
    /\ now = 0
    /\ tasks = [t \in TaskIds |-> IdleTask]
    /\ con = ConOff
    /\ dms = << >>
    /\ req_log = {}
    /\ last_confirmed = {}
    /\ confirm_log = {}

\* the logins tried: right and wrong password, an identity, a pending registration
Logins == {<<"alice", "pa">>, <<"alice", "pb">>, <<"bob", "pb">>}

SessionGrantees == {"alice"}

\* the actors who log in; the other actors issue commands without ever logging in
LoginActors == {1}

NextSession ==
    \/ \E t \in TaskIds, a \in LoginActors, l \in Logins : LoginBegin(t, a, l[1], l[2])
    \/ \E t \in TaskIds : LoginFetch(t)
    \/ \E t \in TaskIds : LoginVerify(t)
    \/ \E a \in LoginActors : logout(a)
    \/ Tick
    \/ \E t \in TaskIds, a \in Actors, g \in SessionGrantees : GrantBegin(t, a, 1, <<g>>)
    \/ \E t \in TaskIds : GrantOwner(t)
    \/ \E t \in TaskIds : GrantUser(t)
    \/ \E t \in TaskIds : GrantInsert(t)
    \/ \E t \in TaskIds : GrantCommit(t)
    \/ \E t \in TaskIds, a \in Actors : ConfirmBegin(t, a, 1)
    \/ \E t \in TaskIds : ConfirmSelect(t)
    \/ \E t \in TaskIds : ConfirmInsert(t)
    \/ \E t \in TaskIds : ConfirmDelete(t)
    \/ \E t \in TaskIds : ConfirmCommit(t)
    \/ \E t \in TaskIds, a \in Actors, g \in SessionGrantees : ShareBegin(t, a, 1, g, "u", "p")
    \/ \E t \in TaskIds : ShareOwner(t)
    \/ \E t \in TaskIds : ShareGrant(t)
    \/ \E t \in TaskIds : ShareSend(t)
    \/ \E t \in TaskIds, a \in Actors : ListBegin(t, a)
    \/ \E t \in TaskIds : ListSelect(t)
    \/ \E t \in TaskIds, a \in Actors : PendingBegin(t, a)
    \/ \E t \in TaskIds : PendingSelect(t)
    \/ \E t \in TaskIds, a \in Actors, g \in Games : UploadBegin(t, a, g, "u", "p")
    \/ \E t \in TaskIds : UploadInsert(t)
    \/ \E t \in TaskIds : UploadCommit(t)

SpecSession == InitSession /\ [][NextSession]_vars

\* the logins of the two identities
ShareLogins == {<<"alice", "pa">>, <<"zed", "pb">>}

ShareGrantees == {"alice", "zed"}

\* the actor who logs in and issues the commands; the other member of the guild
\* never talks to the bot
ShareActors == {2}

\* the access-grant protocol from login to the private message
NextShare ==
    \/ \E t \in TaskIds, a \in ShareActors, l \in ShareLogins : LoginBegin(t, a, l[1], l[2])
    \/ \E t \in TaskIds : LoginFetch(t)
    \/ \E t \in TaskIds : LoginVerify(t)
    \/ \E t \in TaskIds, a \in ShareActors, g \in ShareGrantees : GrantBegin(t, a, 1, <<g>>)
    \/ \E t \in TaskIds : GrantOwner(t)
    \/ \E t \in TaskIds : GrantUser(t)
    \/ \E t \in TaskIds : GrantInsert(t)
    \/ \E t \in TaskIds : GrantCommit(t)
    \/ \E t \in TaskIds, a \in ShareActors : ConfirmBegin(t, a, 1)
    \/ \E t \in TaskIds : ConfirmSelect(t)
    \/ \E t \in TaskIds : ConfirmInsert(t)
    \/ \E t \in TaskIds : ConfirmDelete(t)
    \/ \E t \in TaskIds : ConfirmCommit(t)
    \/ \E t \in TaskIds, a \in ShareActors, g \in ShareGrantees : ShareBegin(t, a, 1, g, "u", "p")
    \/ \E t \in TaskIds : ShareOwner(t)
    \/ \E t \in TaskIds : ShareGrant(t)
    \/ \E t \in TaskIds : ShareSend(t)

SpecShare == InitSession /\ [][NextShare]_vars

\* the logins tried while registrations are queued and resolved: an identity with
\* the right and a wrong password, a name that is registered during the run, a name
\* nobody registers
IdentityLogins == {<<"alice", "pa">>, <<"alice", "pb">>, <<"bob", "pb">>, <<"zed", "pb">>}

\* registration, resolution of the queues and login
NextIdentity ==
    \/ \E t \in TaskIds : RegisterBegin(t, 2, "bob", "pb")
    \/ \E t \in TaskIds : RegisterUsers(t)
    \/ \E t \in TaskIds : RegisterPending(t)
    \/ \E t \in TaskIds : RegisterInsert(t)
    \/ \E t \in TaskIds : RegisterCommit(t)
    \/ \E p \in MasterGuesses : ConStart(p)
    \/ ConSelect
    \/ \E approve_ids \in IdSets, reject_ids \in IdSets : ConPrompt(approve_ids, reject_ids)
    \/ ConInsert
    \/ ConDelete
    \/ ConReject
    \/ ConCommit
    \/ \E t \in TaskIds, a \in Actors, l \in IdentityLogins : LoginBegin(t, a, l[1], l[2])
    \/ \E t \in TaskIds : LoginFetch(t)
    \/ \E t \in TaskIds : LoginVerify(t)
    \/ \E a \in Actors : logout(a)

SpecIdentity == InitQueue /\ [][NextIdentity]_vars

\* every command with every input, from the first start
Next ==
    \/ NextAccess
    \/ NextQueue
    \/ \E t \in TaskIds, a \in Actors, u \in Names, p \in Passwords : LoginBegin(t, a, u, p)
    \/ \E t \in TaskIds : LoginFetch(t)
    \/ \E t \in TaskIds : LoginVerify(t)
    \/ \E a \in Actors : logout(a)
    \/ Tick
    \/ \E t \in TaskIds, a \in Actors : ListBegin(t, a)
    \/ \E t \in TaskIds : ListSelect(t)
    \/ \E t \in TaskIds, a \in Actors : PendingBegin(t, a)
    \/ \E t \in TaskIds : PendingSelect(t)

Spec == Init /\ [][Next]_vars

-----------------------------------------------------------------------------
(* The access-grant protocol: claims *)

Owns(username, account_id) ==
    \E r \in game_accounts : r.id = account_id /\ r.uploader_username = username

RequestsOf(account_id, username) ==
    {r \in access_requests : r.account_id = account_id /\ r.username = username}

GrantsOf(account_id, username) ==
    {g \in access_grants : g.account_id = account_id /\ g.username = username}

\* the confirm_access commands of grantee g for credential c that have replied
Confirmed(c, g) ==
    {t \in TaskIds : /\ tasks[t].cmd = "confirm_access" /\ tasks[t].pc = "done"
                     /\ tasks[t].account_id = c /\ tasks[t].username = g}

\* C1: when one Requested row was ever created for (c, g) and two overlapping
\* confirm_access(c) commands of g have replied, one of them with success, then the
\* other replied "no pending access request" and (c, g) has exactly one Granted row.
C1_ConfirmExactlyOnce ==
    \A c \in AccountIds, g \in Names :
        ( /\ Cardinality({r \in req_log : r.account_id = c /\ r.username = g}) = 1
          /\ Confirmed(c, g) = TaskIds
          /\ \E t \in TaskIds : tasks[t].resp = AccessConfirmed )
        => /\ Cardinality({t \in TaskIds : tasks[t].resp = AccessConfirmed}) = 1
           /\ Cardinality({t \in TaskIds : tasks[t].resp = NoPendingRequest}) = 1
           /\ Cardinality(GrantsOf(c, g)) = 1

\* C3: access_requests never holds two rows for one (credential id, grantee) pair.
C3_OneRequestPerPair ==
    \A r1, r2 \in access_requests :
        (r1.account_id = r2.account_id /\ r1.username = r2.username) => r1 = r2

\* C4: a confirm_access(c) of g that reads access_requests when the latest committed
\* protocol step of (c, g) is a successful confirm (no grant_access since) finds no
\* row and replies "no pending access request".
C4_SecondConfirmNotFound ==
    [][\A t \in TaskIds :
          (ConfirmSelect(t) /\ <<tasks[t].account_id, tasks[t].username>> \in last_confirmed)
          => (tasks'[t].pc = "done" /\ tasks'[t].resp = NoPendingRequest)]_vars

\* C5: the commit of a successful confirm_access(c) of g removes one Requested row
\* of (c, g) and adds one Granted row of (c, g) whose granted_by is that row's
\* requested_by, in one step; every Requested row that is gone has a Granted row
\* of its pair; a confirm_access that finds no row leaves the tables as they are.
C5_ConfirmAtomic ==
    /\ [][\A t \in TaskIds :
             ConfirmCommit(t) =>
                \E r \in RequestsOf(tasks[t].account_id, tasks[t].username) :
                    /\ access_requests' = access_requests \ {r}
                    /\ \E g \in access_grants' :
                          /\ access_grants' \ access_grants = {g}
                          /\ g.account_id = r.account_id /\ g.username = r.username
                          /\ g.granted_by = r.requested_by]_vars
    /\ [][\A t \in TaskIds :
             (ConfirmSelect(t) /\ tasks'[t].resp = NoPendingRequest) => db' = db]_vars
    /\ [](\A r \in req_log \ access_requests : GrantsOf(r.account_id, r.username) # {})

\* C2: every private message share_account has sent is for a credential its sender
\* owns and a grantee with a Granted row; a share_account that reads access_grants
\* while (credential, target) has no Granted row (the pair is NoRelation or
\* Requested) replies "no confirmed access", one whose caller does not own the
\* credential replies "not found or not owned", and neither sends anything.
C2_DiscloseOnlyGranted ==
    /\ [](\A i \in DOMAIN dms :
             /\ Owns(dms[i].sender, dms[i].account_id)
             /\ GrantsOf(dms[i].account_id, dms[i].target) # {})
    /\ [][\A t \in TaskIds :
             (ShareGrant(t) /\ GrantsOf(tasks[t].account_id, tasks[t].target) = {})
             => (tasks'[t].pc = "done" /\ tasks'[t].resp = NoConfirmedAccess /\ dms' = dms)]_vars
    /\ [][\A t \in TaskIds :
             (ShareOwner(t) /\ ~Owns(tasks[t].username, tasks[t].account_id))
             => (tasks'[t].pc = "done" /\ tasks'[t].resp = NotOwned /\ dms' = dms)]_vars
    /\ [][dms' # dms =>
             \E t \in TaskIds : /\ tasks[t].cmd = "share_account" /\ tasks[t].pc = "send"
                                /\ Owns(tasks[t].username, tasks[t].account_id)
                                /\ GrantsOf(tasks[t].account_id, tasks[t].target) # {}]_vars

\* C2 witness: a message was sent, and another share_account was refused for a pair
\* that is only Requested.
C2_Witness ==
    /\ dms # << >>
    /\ \E t \in TaskIds : /\ tasks[t].cmd = "share_account"
                          /\ tasks[t].resp = NoConfirmedAccess

\* the grant_access commands that passed the session check and whose caller does
\* not own the credential they name (or it does not exist)
ForeignGrants ==
    {t \in TaskIds : /\ tasks[t].cmd = "grant_access"
                     /\ tasks[t].resp # PleaseLogin
                     /\ ~Owns(tasks[t].username, tasks[t].account_id)}

\* C6 as claimed: such a grant_access replies "not found or not owned", whatever the
\* list of grantees, and stages no row.
C6_NotOwnedAnyList ==
    \A t \in ForeignGrants :
        /\ tasks[t].pc \in {"owner", "done"}
        /\ tasks[t].wr = EmptyWr
        /\ tasks[t].pc = "done" => tasks[t].resp = NotOwned

\* C6 amended: such a grant_access never reaches the loop over the grantees and
\* stages no row; it replies "not found or not owned" when the list of grantees is
\* not empty and "provide at least one username" when it is empty.
C6_NotOwnedNonEmptyList ==
    \A t \in ForeignGrants :
        /\ tasks[t].pc \in {"owner", "done"}
        /\ tasks[t].wr = EmptyWr
        /\ tasks[t].pc = "done" =>
              tasks[t].resp = (IF tasks[t].usernames = << >> THEN NoUsernames ELSE NotOwned)

\* C6 witness: a grant_access of a non-owner with grantees was refused while
\* access_requests is empty.
C6_Witness ==
    \E t \in ForeignGrants :
        /\ tasks[t].pc = "done" /\ tasks[t].resp = NotOwned
        /\ tasks[t].usernames # << >>
        /\ req_log = {}

-----------------------------------------------------------------------------
(* The moderation queue: claims *)

\* the console commits the resolution of the registration queue
ResolveCommit == con.pc = "commit" /\ con.q = "users" /\ con'.pc # "commit" /\ con'.exit = ""

\* C7: a resolution of the registration queue whose approve and reject ids overlap
\* changes no table.
C7_OverlapMutatesNothing ==
    [][(ResolveCommit /\ con.approve_ids \cap con.reject_ids # {}) => db' = db]_vars

\* C8: a resolution of the registration queue with disjoint approve and reject ids
\* adds one users row for every pending row with an approved id, with its username
\* and passhash, and no other; it removes from pending_users the rows with an id in
\* approve or reject and no other; the users rows there were stay; with both sets
\* empty nothing changes.
C8_ResolveExact ==
    [][(ResolveCommit /\ con.approve_ids \cap con.reject_ids = {}) =>
          LET approved == {r \in pending_users : r.id \in con.approve_ids}
              resolved == {r \in pending_users :
                              r.id \in con.approve_ids \cup con.reject_ids}
              new == users' \ users
          IN  /\ users \subseteq users'
              /\ Cardinality(new) = Cardinality(approved)
              /\ \A r \in approved :
                    Cardinality({u \in new : u.username = r.username
                                             /\ u.passhash = r.passhash})
                    = Cardinality({x \in approved : x.username = r.username
                                                    /\ x.passhash = r.passhash})
              /\ pending_users' = pending_users \ resolved
              /\ \A t \in Tables \ {"users", "pending_users"} : db'[t] = db[t]
              /\ (con.approve_ids \cup con.reject_ids = {}) => db' = db]_vars

\* C8 witness: of two queued registrations one was approved and the other rejected.
C8_Witness ==
    /\ seq["pending_users"] = 4
    /\ pending_users = {}
    /\ Cardinality(users) = 2
    /\ con.pc = "select" /\ con.q = "accounts"

\* C9: no step of the console other than a commit changes a committed table, also
\* not the step at which the store fails; while a batch is open every row that was
\* listed is still in the queue.
C9_AllOrNothing ==
    /\ [][(con' # con /\ ~(con.pc = "commit" /\ con'.exit = "")) => db' = db]_vars
    /\ [](con.pc \in {"prompt", "insert", "delete", "reject", "commit"} =>
             \A id \in con.listed : \E r \in db[Pending(con.q)] : r.id = id)

\* C9 witness: the three statements of a batch have run, the commit has not, and
\* the store still shows the queue as it was listed.
C9_Witness ==
    /\ con.pc = "commit"
    /\ con.approve_ids # {} /\ con.reject_ids # {}
    /\ con.wr.ins[Target(con.q)] # {}
    /\ con.wr.del[Pending(con.q)] = con.approve_ids \cup con.reject_ids
    /\ \A id \in con.listed : \E r \in db[Pending(con.q)] : r.id = id

\* C10: no username occurs twice across users and pending_users.
C10_UsernameUnique ==
    /\ \A r1, r2 \in pending_users : r1.username = r2.username => r1 = r2
    /\ \A u1, u2 \in users : u1.username = u2.username => u1 = u2
    /\ \A r \in pending_users, u \in users : r.username # u.username

-----------------------------------------------------------------------------
(* Sessions: claims *)

\* the commands that start with the session check, with the inputs they are given
ProtectedBegin(t, a) ==
    \/ \E g \in Games : UploadBegin(t, a, g, "u", "p")
    \/ ListBegin(t, a)
    \/ \E g \in SessionGrantees : GrantBegin(t, a, 1, <<g>>)
    \/ ConfirmBegin(t, a, 1)
    \/ \E g \in SessionGrantees : ShareBegin(t, a, 1, g, "u", "p")
    \/ PendingBegin(t, a)

\* C11: the session check returns the session of an actor exactly when the registry
\* has an entry for the actor whose expiry is strictly later than now, and the check
\* of an entry it reports absent removes the entry.
C11_SessionIffStrictlyLater ==
    \A a \in Actors :
        /\ (is_logged_in(a) # << >>) <=>
              (a \in DOMAIN sessions /\ sessions[a].expires_at > now)
        /\ (is_logged_in(a) = << >>) => a \notin DOMAIN sessions_after_check(a)

\* C12: a registry entry appears or changes only at a successful login of its actor,
\* which sets the expiry to now plus SESSION_DURATION; an entry disappears only at a
\* logout of its actor or at a check that finds it expired.
C12_ExpiryFixedAtLogin ==
    /\ [][\A a \in Actors :
             (a \in DOMAIN sessions' /\ (a \notin DOMAIN sessions \/ sessions'[a] # sessions[a]))
             => \E t \in TaskIds :
                   /\ LoginVerify(t) /\ tasks[t].actor = a
                   /\ tasks'[t].resp = LoginSuccessful
                   /\ sessions'[a] = [username |-> tasks[t].username,
                                      expires_at |-> now + SESSION_DURATION]]_vars
    /\ [][\A a \in Actors :
             (a \in DOMAIN sessions /\ a \notin DOMAIN sessions')
             => (logout(a) \/ sessions[a].expires_at < now)]_vars

\* C12 witness: an hour after the login a protected command has run and the
\* session still expires SESSION_DURATION after the login.
C12_Witness ==
    /\ now = 1
    /\ 1 \in DOMAIN sessions /\ sessions[1].expires_at = SESSION_DURATION
    /\ \E t \in TaskIds : tasks[t].cmd = "upload_account" /\ tasks[t].resp = UploadSubmitted

\* C13: a protected command of an actor with no registry entry, or with an entry
\* whose expiry is not later than now, replies "Please login first." and returns at
\* once: no table, no id counter and no private message changes.
C13_NoSessionNoEffect ==
    [][\A t \in TaskIds, a \in Actors :
          (ProtectedBegin(t, a)
             /\ (a \notin DOMAIN sessions \/ sessions[a].expires_at <= now))
          => /\ tasks'[t].pc = "done" /\ tasks'[t].resp = PleaseLogin
             /\ db' = db /\ seq' = seq /\ dms' = dms]_vars

-----------------------------------------------------------------------------
(* The private message: claims *)

\* C14: every private message of share_account went to an actor who, logged in as
\* the grantee the message is for, confirmed access to its credential.
C14_SecretOnlyToConfirmer ==
    \A i \in DOMAIN dms :
        \E e \in confirm_log :
            /\ e.actor = dms[i].to
            /\ e.username = dms[i].target
            /\ e.account_id = dms[i].account_id

\* C15: a share_account of the owner of a credential for a grantee who has confirmed
\* access to it ends with "Account details shared via DM." and one more private
\* message, which carries the two strings the caller gave.
C15_ShareAfterConfirmSucceeds ==
    [][\A t \in TaskIds :
          ( /\ tasks[t].cmd = "share_account" /\ tasks[t].pc \in {"owner", "grant", "send"}
            /\ tasks'[t].pc = "done"
            /\ Owns(tasks[t].username, tasks[t].account_id)
            /\ \E e \in confirm_log : /\ e.username = tasks[t].target
                                      /\ e.account_id = tasks[t].account_id )
          => /\ tasks'[t].resp = DetailsShared
             /\ Len(dms') = Len(dms) + 1
             /\ dms'[Len(dms')].game_username = tasks[t].secret[1]
             /\ dms'[Len(dms')].game_password = tasks[t].secret[2]]_vars

-----------------------------------------------------------------------------
(* Identities and login: claims *)

UsernamesOf(rows) == {r.username : r \in rows}

\* C16: a users row appears only at the commit of a resolution that approves a
\* pending registration with its username; every session carries the username of a
\* users row; a login with a username that has no users row replies "No approved
\* account found."; a login that fails leaves the registry as it is.
C16_IdentityOnlyByApproval ==
    /\ [][\A u \in users' \ users :
             /\ ResolveCommit
             /\ \E r \in pending_users : r.id \in con.approve_ids /\ r.username = u.username]_vars
    /\ [](\A a \in DOMAIN sessions : sessions[a].username \in UsernamesOf(users))
    /\ [][\A t \in TaskIds :
             (LoginFetch(t) /\ tasks[t].username \notin UsernamesOf(users))
             => tasks'[t].resp = NoApprovedAccount]_vars
    /\ [][\A t \in TaskIds :
             (tasks[t].cmd = "login" /\ tasks[t].pc \in {"fetch", "verify"}
                /\ tasks'[t].pc = "done"
                /\ tasks'[t].resp \in {NoApprovedAccount, InvalidCredentials})
             => sessions' = sessions]_vars

\* C16 witness: bob, approved from the queue, is logged in; a login with a wrong
\* password has failed.
C16_Witness ==
    /\ "bob" \in UsernamesOf(users)
    /\ \E a \in DOMAIN sessions : sessions[a].username = "bob"
    /\ \E t \in TaskIds : tasks[t].cmd = "login" /\ tasks[t].resp = InvalidCredentials

-----------------------------------------------------------------------------
(* The access-grant protocol and the console gate: further claims *)

\* C17: no Granted row is ever removed, no pair has more than one Granted row, and
\* no pair has a Requested row and a Granted row at once.
C17_GrantedTerminal ==
    /\ [][access_grants \subseteq access_grants']_vars
    /\ [](\A c \in AccountIds, g \in Names :
             /\ Cardinality(GrantsOf(c, g)) <= 1
             /\ GrantsOf(c, g) # {} => RequestsOf(c, g) = {})

\* C18: the console leaves "off" only through a master password that verifies; a
\* password that does not verify ends the run with "Invalid master password.",
\* no connection and no table changed; the console changes a table only inside a
\* run.
C18_MasterGate ==
    /\ [][(con.pc = "off" /\ con'.pc # "off")
             => \E p \in MasterGuesses :
                   ConStart(p) /\ hash_secret(p) = MASTER_PASSWORD_HASH]_vars
    /\ [][\A p \in MasterGuesses :
             (ConStart(p) /\ hash_secret(p) # MASTER_PASSWORD_HASH)
             => /\ con' = [ConOff EXCEPT !.exit = InvalidMaster]
                /\ db' = db /\ seq' = seq]_vars
    /\ [][(con' # con /\ db' # db) => con.pc # "off"]_vars

\* C18 witness: a run ended at the master password while registrations wait in the
\* queue.
C18_Witness ==
    /\ con.pc = "off" /\ con.exit = InvalidMaster
    /\ pending_users # {}

\* C19: when a grant_access of the owner commits, every listed username without a
\* users row was reported and got no row, and every other listed username that had
\* no Requested row for the credential got exactly one new row, requested_by the
\* owner; a grant_access with no username replies "Provide at least one username"
\* and changes no table.
C19_GrantPerGrantee ==
    /\ [][\A t \in TaskIds :
             GrantCommit(t) =>
                LET me == tasks[t]
                    new == access_requests' \ access_requests
                IN  \A k \in DOMAIN me.usernames :
                       LET g == me.usernames[k]
                           mine == {r \in new : r.username = g}
                       IN  IF g \notin UsernamesOf(users)
                           THEN g \in me.unreg /\ mine = {}
                           ELSE RequestsOf(me.account_id, g) = {}
                                => /\ Cardinality(mine) = 1
                                   /\ \A r \in mine : /\ r.account_id = me.account_id
                                                      /\ r.requested_by = me.username]_vars
    /\ [][\A t \in TaskIds, a \in Actors, c \in AccountIds :
             (GrantBegin(t, a, c, << >>) /\ is_logged_in(a) # << >>)
             => (tasks'[t].resp = NoUsernames /\ db' = db)]_vars

\* C20: requested_by of every Requested row and granted_by of every Granted row is
\* the uploader of the row's credential; the grantee of every Granted row has a
\* users row and confirmed access to the credential itself.
C20_OnlyUploaderCausesRows ==
    /\ \A r \in access_requests : Owns(r.requested_by, r.account_id)
    /\ \A g \in access_grants :
          /\ Owns(g.granted_by, g.account_id)
          /\ g.username \in UsernamesOf(users)
          /\ \E e \in confirm_log : e.username = g.username /\ e.account_id = g.account_id

\* C20 witness: a Granted row exists and a grant_access of somebody who is not the
\* uploader was refused.
C20_Witness ==
    /\ access_grants # {}
    /\ \E t \in TaskIds : tasks[t].cmd = "grant_access" /\ tasks[t].resp = NotOwned

====
